---- MODULE Spec2Model ----
(***************************************************************************)
(* Model of the tool-invocation router of Agent Deck's MCP server          *)
(* (src/app_mcp.py): call_service -> _call_service_internal, the direct    *)
(* MCP call (call_mcp_service_async) and the A2A sequence discovery GET,   *)
(* liveness GET, JSON-RPC primary POST and the three REST fallback POSTs.  *)
(*                                                                         *)
(* One run is one invocation of call_service.  Every network call is two   *)
(* actions: one sends the request (it joins the run's trace and is in      *)
(* flight), the other draws the reply of the remote side from a small set  *)
(* and continues as the code does up to the next network call.             *)
(***************************************************************************)
EXTENDS Integers, Sequences, FiniteSets, TLC

VARIABLES
    pc,            \* run -> position in _call_service_internal
    req,           \* run -> arguments of call_service
    dirReply,      \* run -> what get_active_deck obtained from the backend
    service,       \* run -> the entry found in the active deck (local `service`)
    kwargs,        \* run -> parsed arguments (local `kwargs`)
    headers,       \* run -> A2A request headers (local `headers`)
    commEndpoint,  \* run -> local `communication_endpoint`
    primaryErr,    \* run -> exception `e` bound by the except clause of line 291
    fbIndex,       \* run -> index of the next entry of rest_endpoints
    trace,         \* run -> sequence of the requests sent to service endpoints
    inflight,      \* run -> the requests sent and not yet answered
    got,           \* run -> step -> reply received at that step
    result,        \* run -> value returned or exception raised by call_service
    jsonErrIsRequestException,
                   \* TRUE when response.json() raises a subclass of
                   \* requests.exceptions.RequestException (requests >= 2.27),
                   \* FALSE when it raises a plain json ValueError (older builds)
    world          \* the calls the callers make and the replies the backend
                   \* and the remote endpoints give; it never changes

vars == <<pc, req, dirReply, service, kwargs, headers, commEndpoint,
          primaryErr, fbIndex, trace, inflight, got, result,
          jsonErrIsRequestException, world>>

Runs == DOMAIN pc

-----------------------------------------------------------------------------
(* Data: headers, active-deck entries, backend replies *)

NoHeaders == [h \in {} |-> ""]

\* {**a, **b}: the right operand wins on a key collision
\* the entries of the left mapping win
MergeHeadersLeft(a, b) ==
    [h \in (DOMAIN a) \cup (DOMAIN b) |-> IF h \in DOMAIN a THEN a[h] ELSE b[h]]

MergeHeaders(a, b) ==
    [h \in (DOMAIN a) \cup (DOMAIN b) |-> IF h \in DOMAIN b THEN b[h] ELSE a[h]]

\* Entries of active_deck["services"].  apiKey "" stands for an absent (None)
\* or empty key: the code only tests its truthiness.
SvcMcp ==
    [id |-> "s1", name |-> "calc", type |-> "mcp", url |-> "http://h/rpc",
     apiKey |-> "",
     headers |-> [h \in {"X-Api-Key", "Content-Type"} |->
                     IF h = "X-Api-Key" THEN "k1" ELSE "text/plain"]]
SvcA2A ==
    [id |-> "s2", name |-> "agent", type |-> "a2a", url |-> "http://h/card",
     apiKey |-> "tok",
     headers |-> [h \in {"X-Trace", "Content-Type"} |->
                     IF h = "X-Trace" THEN "t2" ELSE "text/plain"]]
SvcOther ==
    [id |-> "s3", name |-> "legacy", type |-> "rest", url |-> "http://g/card",
     apiKey |-> "", headers |-> NoHeaders]
SvcPlain ==
    [id |-> "s3", name |-> "plain", type |-> "a2a", url |-> "http://p/card",
     apiKey |-> "", headers |-> NoHeaders]
NoService ==
    [id |-> "", name |-> "", type |-> "", url |-> "",
     apiKey |-> "", headers |-> NoHeaders]

ServiceIds == {"s1", "s2", "s3", "s9"}
ToolNames == {"run", "analyze", ""}
ArgStrings == {"", "{\"x\": 1}", "{oops"}

\* Replies of the backend to GET /api/decks/active
DirUnreachable == [kind |-> "unreachable", services |-> <<>>]
DirApiError == [kind |-> "api_error", services |-> <<>>]
DirNoDeck == [kind |-> "no_deck", services |-> <<>>]
DirFull == [kind |-> "deck", services |-> <<SvcMcp, SvcA2A, SvcOther>>]
DirSmall == [kind |-> "deck", services |-> <<SvcPlain>>]
DirNone == [kind |-> "none", services |-> <<>>]
DirReplies == {DirUnreachable, DirApiError, DirNoDeck, DirFull, DirSmall}

\* a failed fetch is answered with a default deck
GetActiveDeckStale(reply) ==
    IF reply.kind = "deck" THEN reply ELSE DirFull

\* AgentDeckAPIClient.get_active_deck: the deck, or None on any failure
GetActiveDeck(reply) ==
    IF reply.kind = "deck" THEN reply ELSE DirNone

\* the services of the deck an invocation fetched before are used again
GetActiveDeckServicesCached(reply) ==
    LET cached == {j \in Runs : dirReply[j].kind = "deck"}
        active_deck == IF cached # {} THEN dirReply[CHOOSE j \in cached : TRUE]
                       ELSE GetActiveDeck(reply)
    IN  IF active_deck.kind = "none" THEN <<>> ELSE active_deck.services

\* get_active_deck_services: [] when there is no deck, else its services
GetActiveDeckServices(reply) ==
    LET active_deck == GetActiveDeck(reply)
    IN  IF active_deck.kind = "none" THEN <<>> ELSE active_deck.services

\* the lookup loop of _call_service_internal: first entry with the id
RECURSIVE FindService(_, _)
FindService(services, service_id) ==
    IF services = <<>> THEN NoService
    ELSE IF Head(services).id = service_id THEN Head(services)
    ELSE FindService(Tail(services), service_id)

-----------------------------------------------------------------------------
(* Data: argument strings and their parse *)

NoKwargs == [valid |-> FALSE, text |-> ""]

\* json.loads(arguments) if arguments else {}
ParseArguments(arguments) ==
    IF arguments = "" THEN [valid |-> TRUE, text |-> "{}"]
    ELSE IF arguments = "{oops" THEN NoKwargs
    ELSE [valid |-> TRUE, text |-> arguments]

-----------------------------------------------------------------------------
(* Data: HTTP replies of remote endpoints *)

\* A reply body: `kind` says whether it parses as JSON and to what, `keys`
\* are the keys of a parsed object, `url` the value of its "url" key ("" when
\* absent or empty), resultIsObject whether its "result" value is a dict,
\* `skills` the value of its "skills" key (<<>> when absent or empty).
Body(id, kind, keys, url, resultIsObject) ==
    [id |-> id, kind |-> kind, keys |-> keys, url |-> url,
     resultIsObject |-> resultIsObject, skills |-> <<>>]

\* An entry of the skills list of an agent card: the keys it has, and the
\* values of "id" and "name" ("" when the key is absent)
Skill(keys, id, name) == [keys |-> keys, id |-> id, name |-> name]

\* an agent card with a skills list
CardWithSkills(id, url, skills) ==
    [id |-> id, kind |-> "object", keys |-> {"name", "url", "skills"}, url |-> url,
     resultIsObject |-> FALSE, skills |-> skills]

BodyNone == Body("none", "invalid", {}, "", FALSE)
BodyHtml == Body("html", "invalid", {}, "", FALSE)
BodyArray == Body("array", "array", {}, "", FALSE)
BodyCard == Body("card", "object", {"name", "url"}, "http://h/agent", FALSE)
BodyCardNoUrl == Body("card_no_url", "object", {"name"}, "", FALSE)
BodyCardEmptyUrl == Body("card_empty_url", "object", {"name", "url"}, "", FALSE)
BodyCardSkills ==
    CardWithSkills("card_skills", "http://h/agent", <<Skill({"id", "name"}, "x1", "Run")>>)
BodyCardSkillNoId ==
    CardWithSkills("card_skill_no_id", "http://h/agent", <<Skill({"name"}, "", "Run")>>)
BodyCardSkillNoName ==
    CardWithSkills("card_skill_no_name", "http://h/agent", <<Skill({"id"}, "zz", "")>>)
BodyTools == Body("tools", "object", {"available_tools"}, "", FALSE)
BodyPlain == Body("plain", "object", {"status"}, "", FALSE)
BodyResult == Body("result", "object", {"jsonrpc", "id", "result"}, "", TRUE)
BodyResultStr == Body("result_str", "object", {"jsonrpc", "id", "result"}, "", FALSE)
BodyError == Body("error", "object", {"jsonrpc", "id", "error"}, "", FALSE)
BodyError2 == Body("error2", "object", {"error"}, "", FALSE)

\* net: whether requests.get/post returned a response at all
Reply(net, status, ctype, body) ==
    [net |-> net, status |-> status, ctype |-> ctype, body |-> body]

NoReply == Reply("none", 0, "", BodyNone)
ConnError == Reply("connect_error", 0, "", BodyNone)
Timeout == Reply("timeout", 0, "", BodyNone)
Http500 == Reply("ok", 500, "text/html", BodyHtml)
Http404 == Reply("ok", 404, "text/html", BodyHtml)
OkJson(body) == Reply("ok", 200, "application/json", body)
OkText(body) == Reply("ok", 200, "text/html", body)

DiscoverReplies ==
    {ConnError, Http500, OkText(BodyHtml), OkJson(BodyArray),
     OkJson(BodyCard), OkJson(BodyCardNoUrl), OkJson(BodyCardEmptyUrl),
     OkJson(BodyCardSkills), OkJson(BodyCardSkillNoId), OkJson(BodyCardSkillNoName)}
LivenessReplies ==
    {ConnError, Http500, OkText(BodyHtml), OkJson(BodyPlain), OkJson(BodyTools)}
PrimaryReplies ==
    {ConnError, Timeout, Http500, OkText(BodyHtml), OkJson(BodyArray),
     OkJson(BodyError), OkJson(BodyResult), OkJson(BodyResultStr),
     OkJson(BodyPlain)}
FallbackReplies ==
    {ConnError, Http404, OkJson(BodyPlain), OkText(BodyHtml), OkJson(BodyHtml)}
DirectReplies ==
    {ConnError, Timeout, Http500, OkText(BodyHtml), OkJson(BodyError),
     OkJson(BodyError2), OkJson(BodyResult), OkJson(BodyResultStr),
     OkJson(BodyPlain), OkJson(BodyArray)}

Steps == {"direct", "discover", "liveness", "primary", "fb1", "fb2", "fb3"}
NothingGot == [s \in Steps |-> NoReply]

-----------------------------------------------------------------------------
(* Exceptions and results *)

Exc(cls, text, step) == [cls |-> cls, text |-> text, step |-> step]
NoExc == Exc("", "", "")

\* requests.get / requests.post: raises when no response arrives
SendError(reply, step) ==
    IF reply.net = "connect_error" THEN Exc("ConnectionError", "connection refused", step)
    ELSE IF reply.net = "timeout" THEN Exc("Timeout", "timed out", step)
    ELSE NoExc

\* response.raise_for_status(): HTTPError for a 4xx or 5xx status
RaiseForStatus(reply, step) ==
    IF reply.status >= 400 /\ reply.status < 600
    THEN Exc("HTTPError", "http error", step)
    ELSE NoExc

\* response.json(): raises when the body is not JSON
JsonError(reply, step) ==
    IF reply.body.kind = "invalid"
    THEN Exc("JSONDecodeError", "Expecting value", step)
    ELSE NoExc

\* isinstance(e, requests.exceptions.RequestException)
IsRequestException(e, jsonIsReqExc) ==
    \/ e.cls \in {"ConnectionError", "Timeout", "HTTPError"}
    \/ e.cls = "JSONDecodeError" /\ jsonIsReqExc

\* response.headers.get('content-type', '').startswith('application/json')
IsJsonContentType(ctype) == ctype = "application/json"

Payload(enc, field, body) == [enc |-> enc, field |-> field, body |-> body]
NoPayload == Payload("", "", BodyNone)

NoResult ==
    [state |-> "none", payload |-> NoPayload, cls |-> "", prefix |-> <<>>,
     cause |-> NoExc]
Returned(payload) ==
    [state |-> "returned", payload |-> payload, cls |-> "", prefix |-> <<>>,
     cause |-> NoExc]
\* an exception of class cls leaving call_service; its message is the
\* prefixes followed by str(cause)
Raised(cls, prefix, cause) ==
    [state |-> "raised", payload |-> NoPayload, cls |-> cls, prefix |-> prefix,
     cause |-> cause]

-----------------------------------------------------------------------------
(* What the code does with each reply *)

\* the first exception raised by a sequence of calls
FirstError(errs) ==
    IF \A k \in DOMAIN errs : errs[k] = NoExc THEN NoExc
    ELSE errs[CHOOSE k \in DOMAIN errs :
                 errs[k] # NoExc /\ \A m \in 1..(k - 1) : errs[m] = NoExc]

Outcome(next, res, e, endpoint) ==
    [next |-> next, result |-> res, e |-> e, endpoint |-> endpoint]

\* the dispatch with its test negated
ProtocolInverted(svc) == IF svc.type # "mcp" THEN "direct" ELSE "agent"

\* the dispatch of _call_service_internal on service['type']
Protocol(svc) == IF svc.type = "mcp" THEN "direct" ELSE "agent"

\* headers of the A2A requests
AgentHeaders(svc) ==
    [h \in {"Content-Type", "Authorization"} |->
        IF h = "Content-Type" THEN "application/json"
        ELSE IF svc.apiKey # "" THEN "Bearer " \o svc.apiKey ELSE ""]

\* headers of the direct MCP request
DirectHeaders(svc) ==
    MergeHeaders([h \in {"Content-Type"} |-> "application/json"], svc.headers)

\* the arguments parsed before the service is looked up
LookupOutcomeParseFirst(reply, service_id, arguments) ==
    LET svc == FindService(GetActiveDeckServices(reply), service_id)
        kw == ParseArguments(arguments)
    IN  IF ~kw.valid
        THEN Outcome("done", Raised("ValueError", <<"Invalid JSON in arguments">>, NoExc),
                     NoExc, "")
        ELSE IF svc = NoService
        THEN Outcome("done", Raised("ValueError", <<"Service not found in active deck">>, NoExc),
                     NoExc, "")
        ELSE IF Protocol(svc) = "direct"
        THEN Outcome("direct", NoResult, NoExc, svc.url)
        ELSE Outcome("discover", NoResult, NoExc, svc.url)

\* _call_service_internal up to its first request to the service
LookupOutcome(reply, service_id, arguments) ==
    LET svc == FindService(GetActiveDeckServices(reply), service_id)
        kw == ParseArguments(arguments)
    IN  IF svc = NoService
        THEN Outcome("done", Raised("ValueError", <<"Service not found in active deck">>, NoExc),
                     NoExc, "")
        ELSE IF ~kw.valid
        THEN Outcome("done", Raised("ValueError", <<"Invalid JSON in arguments">>, NoExc),
                     NoExc, "")
        ELSE IF Protocol(svc) = "direct"
        THEN Outcome("direct", NoResult, NoExc, svc.url)
        ELSE Outcome("discover", NoResult, NoExc, svc.url)

\* call_mcp_service_async and the except clause of the mcp branch around it
\* both except clauses re-raise without the text of the exception they caught
DirectOutcomeOpaque(reply) ==
    LET err == FirstError(<<SendError(reply, "direct"),
                            RaiseForStatus(reply, "direct"),
                            JsonError(reply, "direct")>>)
        wrap == <<"Failed to call MCP service", "Failed to call MCP service">>
        body == reply.body
    IN  IF err # NoExc \/ "error" \in body.keys \/ body.kind # "object"
        THEN Outcome("done", Raised("ValueError", wrap, NoExc), NoExc, "")
        ELSE Outcome("done",
                     Returned(Payload("json.dumps",
                                      IF "result" \in body.keys THEN "result" ELSE "body",
                                      body)),
                     NoExc, "")

DirectOutcome(reply) ==
    LET err == FirstError(<<SendError(reply, "direct"),
                            RaiseForStatus(reply, "direct"),
                            JsonError(reply, "direct")>>)
        wrap == <<"Failed to call MCP service", "Failed to call MCP service">>
        body == reply.body
    IN  IF err # NoExc
        THEN Outcome("done", Raised("ValueError", wrap, err), NoExc, "")
        ELSE IF "error" \in body.keys
        THEN Outcome("done",
                     Raised("ValueError", wrap \o <<"MCP service returned error">>,
                            Exc("error field", body.id, "direct")),
                     NoExc, "")
        ELSE IF body.kind # "object"
        THEN Outcome("done",
                     Raised("ValueError", wrap,
                            Exc("AttributeError", "no attribute get", "direct")),
                     NoExc, "")
        ELSE Outcome("done",
                     Returned(Payload("json.dumps",
                                      IF "result" \in body.keys THEN "result" ELSE "body",
                                      body)),
                     NoExc, "")

\* Steps 1 and 2 with the card parsed outside the try block
DiscoverOutcomeJsonUncaught(reply) ==
    LET err == FirstError(<<SendError(reply, "discover"),
                            RaiseForStatus(reply, "discover")>>)
        perr == JsonError(reply, "discover")
        agent_card == reply.body
    IN  IF err # NoExc
        THEN Outcome("done", Raised("ValueError", <<"Failed to fetch agent card">>, err),
                     NoExc, "")
        ELSE IF perr # NoExc
        THEN Outcome("done", Raised(perr.cls, <<>>, perr), NoExc, "")
        ELSE IF agent_card.kind # "object"
        THEN Outcome("done",
                     Raised("AttributeError", <<>>,
                            Exc("AttributeError", "no attribute get", "discover")),
                     NoExc, "")
        ELSE IF agent_card.url = ""
        THEN Outcome("done",
                     Raised("ValueError",
                            <<"Agent card does not specify a communication endpoint">>,
                            NoExc),
                     NoExc, "")
        ELSE Outcome("liveness", NoResult, NoExc, agent_card.url)

\* Steps 1 and 2 testing the presence of the url key, not its value
DiscoverOutcomeKeyTest(reply) ==
    LET err == FirstError(<<SendError(reply, "discover"),
                            RaiseForStatus(reply, "discover"),
                            JsonError(reply, "discover")>>)
        agent_card == reply.body
    IN  IF err # NoExc
        THEN Outcome("done", Raised("ValueError", <<"Failed to fetch agent card">>, err),
                     NoExc, "")
        ELSE IF agent_card.kind # "object"
        THEN Outcome("done",
                     Raised("AttributeError", <<>>,
                            Exc("AttributeError", "no attribute get", "discover")),
                     NoExc, "")
        ELSE IF "url" \notin agent_card.keys
        THEN Outcome("done",
                     Raised("ValueError",
                            <<"Agent card does not specify a communication endpoint">>,
                            NoExc),
                     NoExc, "")
        ELSE Outcome("liveness", NoResult, NoExc, agent_card.url)

\* Steps 1 and 2: fetch the agent card, extract the communication endpoint
DiscoverOutcome(reply) ==
    LET err == FirstError(<<SendError(reply, "discover"),
                            RaiseForStatus(reply, "discover"),
                            JsonError(reply, "discover")>>)
        agent_card == reply.body
    IN  IF err # NoExc
        THEN Outcome("done", Raised("ValueError", <<"Failed to fetch agent card">>, err),
                     NoExc, "")
        ELSE IF agent_card.kind # "object"
        THEN Outcome("done",
                     Raised("AttributeError", <<>>,
                            Exc("AttributeError", "no attribute get", "discover")),
                     NoExc, "")
        ELSE IF agent_card.url = ""
        THEN Outcome("done",
                     Raised("ValueError",
                            <<"Agent card does not specify a communication endpoint">>,
                            NoExc),
                     NoExc, "")
        ELSE Outcome("liveness", NoResult, NoExc, agent_card.url)

\* Step 3: the log line the liveness check writes
LivenessLog(reply) ==
    LET err == FirstError(<<SendError(reply, "liveness"),
                            RaiseForStatus(reply, "liveness"),
                            JsonError(reply, "liveness")>>)
    IN  IF err # NoExc THEN "warning: could not confirm"
        ELSE IF "available_tools" \in reply.body.keys THEN "info: confirmed"
        ELSE "warning: not an A2A agent"

\* Step 3 letting a failed liveness check end the invocation
LivenessOutcomeAbort(reply) ==
    LET err == FirstError(<<SendError(reply, "liveness"),
                            RaiseForStatus(reply, "liveness"),
                            JsonError(reply, "liveness")>>)
    IN  IF err # NoExc
        THEN Outcome("done", Raised("ValueError", <<"Could not confirm A2A agent status">>, err),
                     NoExc, "")
        ELSE Outcome("primary", NoResult, NoExc, "")

\* Step 3: every exception is caught and logged, the flow goes on
LivenessOutcome(reply) ==
    Outcome("primary", NoResult, NoExc, "")

\* skill['name'].lower().replace(' ', '-')
SkillSlug(name) ==
    IF name = "Run" THEN "run"
    ELSE IF name = "Deep Analyze" THEN "deep-analyze"
    ELSE name

\* the test of the loop of Step 5 on one skill: "match", "no match", or the
\* key whose lookup raises KeyError
SkillTest(skill, tool_name) ==
    IF "id" \notin skill.keys THEN "id"
    ELSE IF skill.id = tool_name THEN "match"
    ELSE IF "name" \notin skill.keys THEN "name"
    ELSE IF SkillSlug(skill.name) = tool_name THEN "match"
    ELSE "no match"

\* the loop of Step 5 from the k-th skill on
RECURSIVE SkillLoop(_, _, _)
SkillLoop(skills, k, tool_name) ==
    IF k > Len(skills) THEN "no match"
    ELSE IF SkillTest(skills[k], tool_name) = "no match"
         THEN SkillLoop(skills, k + 1, tool_name)
         ELSE SkillTest(skills[k], tool_name)

\* Steps 4 and 5: the exception they raise, if any: the log line of Step 4
\* reads skill['id'] of every skill, the loop of Step 5 reads id and name
SkillsError(agent_card, tool_name) ==
    LET skills == agent_card.skills
    IN  IF \E k \in DOMAIN skills : "id" \notin skills[k].keys
        THEN Exc("KeyError", "id", "skills")
        ELSE IF SkillLoop(skills, 1, tool_name) = "name"
        THEN Exc("KeyError", "name", "skills")
        ELSE NoExc

\* Steps 4 and 5: target_skill found or not
SkillFound(agent_card, tool_name) ==
    SkillsError(agent_card, tool_name) = NoExc
    /\ SkillLoop(agent_card.skills, 1, tool_name) = "match"

\* Step 6 with `except Exception` in place of `except RequestException`:
\* every exception of the try block, the reported error included, starts
\* the REST fallback
PrimaryOutcomeCatchAll(reply, jsonIsReqExc) ==
    LET err == FirstError(<<SendError(reply, "primary"),
                            RaiseForStatus(reply, "primary"),
                            JsonError(reply, "primary")>>)
        body == reply.body
        field == IF "result" \in body.keys THEN "result" ELSE "body"
        isDict == field = "body" \/ body.resultIsObject
    IN  IF err # NoExc
        THEN Outcome("fallback", NoResult, err, "")
        ELSE IF "error" \in body.keys
        THEN Outcome("fallback", NoResult, Exc("error field", body.id, "primary"), "")
        ELSE IF body.kind # "object"
        THEN Outcome("fallback", NoResult,
                     Exc("AttributeError", "no attribute get", "primary"), "")
        ELSE Outcome("done",
                     Returned(Payload(IF isDict THEN "json.dumps" ELSE "str", field, body)),
                     NoExc, "")

\* Step 6: the JSON-RPC call and what its try block does with the reply
\* a failed primary call is sent again instead of starting the fallback
PrimaryOutcomeRetry(reply, jsonIsReqExc) ==
    LET err == FirstError(<<SendError(reply, "primary"),
                            RaiseForStatus(reply, "primary"),
                            JsonError(reply, "primary")>>)
        body == reply.body
        field == IF "result" \in body.keys THEN "result" ELSE "body"
        isDict == field = "body" \/ body.resultIsObject
    IN  IF err # NoExc
        THEN IF IsRequestException(err, jsonIsReqExc)
             THEN Outcome("primary", NoResult, err, "")
             ELSE Outcome("done", Raised(err.cls, <<>>, err), NoExc, "")
        ELSE IF "error" \in body.keys
        THEN Outcome("done",
                     Raised("ValueError", <<"A2A agent returned error">>,
                            Exc("error field", body.id, "primary")),
                     NoExc, "")
        ELSE IF body.kind # "object"
        THEN Outcome("done",
                     Raised("AttributeError", <<>>,
                            Exc("AttributeError", "no attribute get", "primary")),
                     NoExc, "")
        ELSE Outcome("done",
                     Returned(Payload(IF isDict THEN "json.dumps" ELSE "str", field, body)),
                     NoExc, "")

PrimaryOutcome(reply, jsonIsReqExc) ==
    LET err == FirstError(<<SendError(reply, "primary"),
                            RaiseForStatus(reply, "primary"),
                            JsonError(reply, "primary")>>)
        body == reply.body
        field == IF "result" \in body.keys THEN "result" ELSE "body"
        isDict == field = "body" \/ body.resultIsObject
    IN  IF err # NoExc
        THEN IF IsRequestException(err, jsonIsReqExc)
             THEN Outcome("fallback", NoResult, err, "")
             ELSE Outcome("done", Raised(err.cls, <<>>, err), NoExc, "")
        ELSE IF "error" \in body.keys
        THEN Outcome("done",
                     Raised("ValueError", <<"A2A agent returned error">>,
                            Exc("error field", body.id, "primary")),
                     NoExc, "")
        ELSE IF body.kind # "object"
        THEN Outcome("done",
                     Raised("AttributeError", <<>>,
                            Exc("AttributeError", "no attribute get", "primary")),
                     NoExc, "")
        ELSE Outcome("done",
                     Returned(Payload(IF isDict THEN "json.dumps" ELSE "str", field, body)),
                     NoExc, "")

\* rest_endpoints with the first two candidates exchanged
RestEndpointsSwapped(communication_endpoint, tool_name) ==
    << communication_endpoint \o "/tool/process",
       communication_endpoint \o "/analyze",
       communication_endpoint \o "/" \o tool_name >>

\* rest_endpoints
RestEndpoints(communication_endpoint, tool_name) ==
    << communication_endpoint \o "/analyze",
       communication_endpoint \o "/tool/process",
       communication_endpoint \o "/" \o tool_name >>

FbStep(k) == IF k = 1 THEN "fb1" ELSE IF k = 2 THEN "fb2" ELSE "fb3"

\* the loop raising the error of its last attempt instead of the primary one
FallbackOutcomeLastError(reply, k, e) ==
    LET isJson == IsJsonContentType(reply.ctype)
        err == FirstError(<<SendError(reply, FbStep(k)),
                            RaiseForStatus(reply, FbStep(k)),
                            IF isJson THEN JsonError(reply, FbStep(k)) ELSE NoExc>>)
        isDict == isJson /\ reply.body.kind = "object"
    IN  IF err = NoExc
        THEN Outcome("done",
                     Returned(Payload(IF isDict THEN "json.dumps" ELSE "str",
                                      IF isJson THEN "body" ELSE "text",
                                      reply.body)),
                     NoExc, "")
        ELSE IF k < 3
        THEN Outcome("fallback", NoResult, e, "")
        ELSE Outcome("done",
                     Raised("ValueError", <<"Failed to call A2A service">>, err),
                     NoExc, "")

\* one iteration of the loop over rest_endpoints; e is the primary error
FallbackOutcome(reply, k, e) ==
    LET isJson == IsJsonContentType(reply.ctype)
        err == FirstError(<<SendError(reply, FbStep(k)),
                            RaiseForStatus(reply, FbStep(k)),
                            IF isJson THEN JsonError(reply, FbStep(k)) ELSE NoExc>>)
        isDict == isJson /\ reply.body.kind = "object"
    IN  IF err = NoExc
        THEN Outcome("done",
                     Returned(Payload(IF isDict THEN "json.dumps" ELSE "str",
                                      IF isJson THEN "body" ELSE "text",
                                      reply.body)),
                     NoExc, "")
        ELSE IF k < Len(RestEndpoints("", ""))
        THEN Outcome("fallback", NoResult, e, "")
        ELSE Outcome("done",
                     Raised("ValueError", <<"Failed to call A2A service">>, e),
                     NoExc, "")

-----------------------------------------------------------------------------
(* Requests *)

RequestBody(shape, method, params) ==
    [shape |-> shape, method |-> method, params |-> params]
NoBody == RequestBody("none", "", "")
\* {"jsonrpc": "2.0", "id": 1, "method": tool_name, "params": kwargs}
JsonRpc(tool_name, kw) == RequestBody("jsonrpc", tool_name, kw.text)
\* the fallback body wrapped into the JSON-RPC envelope of the primary call
PlainJsonEnveloped(kw) == RequestBody("jsonrpc", "", [params |-> kw.text])

\* json=kwargs
PlainJson(kw) == RequestBody("plain", "", kw.text)

Request(step, method, url, hdrs, body) ==
    [step |-> step, method |-> method, url |-> url, headers |-> hdrs, body |-> body]

NoRequestArgs == [service_id |-> "", tool_name |-> "", arguments |-> ""]

-----------------------------------------------------------------------------
(* The environment of a replayed run: it is started after the earlier one   *)
(* has returned, with the same arguments, and sees the same directory and   *)
(* the same replies, except at the liveness check.  With one run, and with  *)
(* runs that are not replays of one another, all of this is vacuous.        *)

Earlier(i) == IF world.replay THEN {j \in Runs : j < i} ELSE {}
MyTurn(i) == \A j \in Earlier(i) : pc[j] = "done"
SameRequest(i, r) == \A j \in Earlier(i) : r = req[j]
SameDirectory(i, d) == \A j \in Earlier(i) : d = dirReply[j]
SameReply(i, step, reply) ==
    \/ step = "liveness"
    \/ \A j \in Earlier(i) : got[j][step] # NoReply => reply = got[j][step]

-----------------------------------------------------------------------------
(* Initial states *)

InitRuns(R) ==
    /\ pc = [i \in R |-> "idle"]
    /\ req = [i \in R |-> NoRequestArgs]
    /\ dirReply = [i \in R |-> DirNone]
    /\ service = [i \in R |-> NoService]
    /\ kwargs = [i \in R |-> NoKwargs]
    /\ headers = [i \in R |-> NoHeaders]
    /\ commEndpoint = [i \in R |-> ""]
    /\ primaryErr = [i \in R |-> NoExc]
    /\ fbIndex = [i \in R |-> 0]
    /\ trace = [i \in R |-> <<>>]
    /\ inflight = [i \in R |-> <<>>]
    /\ got = [i \in R |-> NothingGot]
    /\ result = [i \in R |-> NoResult]

World(replay, ids, tools, args, dirs, direct, discover, liveness, primary, fallback) ==
    [replay |-> replay, ids |-> ids, tools |-> tools, args |-> args, dirs |-> dirs,
     direct |-> direct, discover |-> discover, liveness |-> liveness,
     primary |-> primary, fallback |-> fallback]

\* every call and every reply of the model
FullWorld ==
    World(FALSE, ServiceIds, ToolNames, ArgStrings, DirReplies, DirectReplies,
          DiscoverReplies, LivenessReplies, PrimaryReplies, FallbackReplies)

\* one call of each protocol, every reply
TwinWorld ==
    World(TRUE, {"s1", "s2"}, {"run"}, {"{\"x\": 1}"}, {DirFull}, DirectReplies,
          DiscoverReplies, LivenessReplies, PrimaryReplies, FallbackReplies)

\* two callers at once: the direct service and the service registered under
\* "s3", a deck that is replaced between two lookups, two replies per step
PairWorld ==
    World(FALSE, {"s1", "s3"}, {"run"}, {"", "{oops"}, {DirFull, DirSmall},
          {Http500, OkJson(BodyResult), OkJson(BodyError)},
          {ConnError, OkJson(BodyCard), OkJson(BodyCardNoUrl)},
          {ConnError, OkJson(BodyTools)},
          {Timeout, OkJson(BodyResult), OkJson(BodyError)},
          {Http404, OkJson(BodyPlain)})

Init ==
    /\ InitRuns({1})
    /\ jsonErrIsRequestException \in BOOLEAN
    /\ world = FullWorld

InitTwin ==
    /\ InitRuns({1, 2})
    /\ jsonErrIsRequestException \in BOOLEAN
    /\ world = TwinWorld

InitPair ==
    /\ InitRuns({1, 2})
    /\ jsonErrIsRequestException \in BOOLEAN
    /\ world = PairWorld

-----------------------------------------------------------------------------
(* Actions *)

\* call_service is entered with its three arguments
CallService(i) ==
    /\ pc[i] = "idle"
    /\ MyTurn(i)
    /\ \E sid \in world.ids, tool \in world.tools, args \in world.args :
          LET r == [service_id |-> sid, tool_name |-> tool, arguments |-> args]
          IN  /\ SameRequest(i, r)
              /\ req' = [req EXCEPT ![i] = r]
    /\ pc' = [pc EXCEPT ![i] = "lookup"]
    /\ UNCHANGED <<dirReply, service, kwargs, headers, commEndpoint, primaryErr,
                   fbIndex, trace, inflight, got, result,
                   jsonErrIsRequestException, world>>

\* the directory is fetched, the service looked up, the arguments parsed and
\* the protocol chosen
Lookup(i) ==
    /\ pc[i] = "lookup"
    /\ \E d \in world.dirs :
          LET out == LookupOutcome(d, req[i].service_id, req[i].arguments)
              svc == FindService(GetActiveDeckServices(d), req[i].service_id)
          IN  /\ SameDirectory(i, d)
              /\ dirReply' = [dirReply EXCEPT ![i] = d]
              /\ service' = [service EXCEPT ![i] = svc]
              /\ kwargs' = [kwargs EXCEPT ![i] =
                              IF svc = NoService THEN NoKwargs
                              ELSE ParseArguments(req[i].arguments)]
              /\ headers' = [headers EXCEPT ![i] =
                               IF out.next = "discover" THEN AgentHeaders(svc)
                               ELSE NoHeaders]
              /\ result' = [result EXCEPT ![i] = out.result]
              /\ pc' = [pc EXCEPT ![i] = out.next]
    /\ UNCHANGED <<req, commEndpoint, primaryErr, fbIndex, trace, inflight, got,
                   jsonErrIsRequestException, world>>

\* requests.get and requests.post block: the run sends nothing while a
\* request of its own is unanswered
CanSendAlways(i) == TRUE

CanSend(i) == inflight[i] = <<>>

\* the reply of the request the run waits for is there
Awaiting(i, step) == inflight[i] # <<>> /\ Head(inflight[i]).step = step

\* the single POST of the mcp branch is sent
PostDirect(i) ==
    /\ pc[i] = "direct"
    /\ CanSend(i)
    /\ LET r == Request("direct", "POST", service[i].url, DirectHeaders(service[i]),
                        JsonRpc(req[i].tool_name, kwargs[i]))
       IN  /\ trace' = [trace EXCEPT ![i] = Append(@, r)]
           /\ inflight' = [inflight EXCEPT ![i] = Append(@, r)]
    /\ UNCHANGED <<pc, req, dirReply, service, kwargs, headers, commEndpoint,
                   primaryErr, fbIndex, got, result, jsonErrIsRequestException,
                   world>>

\* the reply of the mcp service is handled
DirectCall(i) ==
    /\ pc[i] = "direct"
    /\ Awaiting(i, "direct")
    /\ \E reply \in world.direct :
          LET out == DirectOutcome(reply)
          IN  /\ SameReply(i, "direct", reply)
              /\ got' = [got EXCEPT ![i]["direct"] = reply]
              /\ result' = [result EXCEPT ![i] = out.result]
              /\ pc' = [pc EXCEPT ![i] = out.next]
    /\ inflight' = [inflight EXCEPT ![i] = Tail(@)]
    /\ UNCHANGED <<req, dirReply, service, kwargs, headers, commEndpoint,
                   primaryErr, fbIndex, trace, jsonErrIsRequestException, world>>

\* Step 1: GET of the registered URL is sent
GetAgentCard(i) ==
    /\ pc[i] = "discover"
    /\ CanSend(i)
    /\ LET r == Request("discover", "GET", service[i].url, NoHeaders, NoBody)
       IN  /\ trace' = [trace EXCEPT ![i] = Append(@, r)]
           /\ inflight' = [inflight EXCEPT ![i] = Append(@, r)]
    /\ UNCHANGED <<pc, req, dirReply, service, kwargs, headers, commEndpoint,
                   primaryErr, fbIndex, got, result, jsonErrIsRequestException,
                   world>>

\* Steps 1-2: the agent card is read and the communication endpoint taken
Discover(i) ==
    /\ pc[i] = "discover"
    /\ Awaiting(i, "discover")
    /\ \E reply \in world.discover :
          LET out == DiscoverOutcome(reply)
          IN  /\ SameReply(i, "discover", reply)
              /\ got' = [got EXCEPT ![i]["discover"] = reply]
              /\ commEndpoint' = [commEndpoint EXCEPT ![i] = out.endpoint]
              /\ result' = [result EXCEPT ![i] = out.result]
              /\ pc' = [pc EXCEPT ![i] = out.next]
    /\ inflight' = [inflight EXCEPT ![i] = Tail(@)]
    /\ UNCHANGED <<req, dirReply, service, kwargs, headers, primaryErr, fbIndex,
                   trace, jsonErrIsRequestException, world>>

\* Step 3: GET of the communication endpoint is sent
GetEndpoint(i) ==
    /\ pc[i] = "liveness"
    /\ CanSend(i)
    /\ LET r == Request("liveness", "GET", commEndpoint[i], NoHeaders, NoBody)
       IN  /\ trace' = [trace EXCEPT ![i] = Append(@, r)]
           /\ inflight' = [inflight EXCEPT ![i] = Append(@, r)]
    /\ UNCHANGED <<pc, req, dirReply, service, kwargs, headers, commEndpoint,
                   primaryErr, fbIndex, got, result, jsonErrIsRequestException,
                   world>>

\* Step 3: the reply of the liveness check is logged
Liveness(i) ==
    /\ pc[i] = "liveness"
    /\ Awaiting(i, "liveness")
    /\ \E reply \in world.liveness :
          LET out == LivenessOutcome(reply)
          IN  /\ SameReply(i, "liveness", reply)
              /\ got' = [got EXCEPT ![i]["liveness"] = reply]
              /\ result' = [result EXCEPT ![i] = out.result]
              /\ pc' = [pc EXCEPT ![i] = out.next]
    /\ inflight' = [inflight EXCEPT ![i] = Tail(@)]
    /\ UNCHANGED <<req, dirReply, service, kwargs, headers, commEndpoint,
                   primaryErr, fbIndex, trace, jsonErrIsRequestException, world>>

\* Steps 4-6: the skills are read, then the JSON-RPC POST goes to the
\* communication endpoint; an exception of Steps 4-5 leaves the function
\* before the POST
PostPrimary(i) ==
    /\ pc[i] = "primary"
    /\ CanSend(i)
    /\ LET agent_card == got[i]["discover"].body
           fault == SkillsError(agent_card, req[i].tool_name)
           r == Request("primary", "POST", commEndpoint[i], headers[i],
                        JsonRpc(req[i].tool_name, kwargs[i]))
       IN  IF fault # NoExc
           THEN /\ result' = [result EXCEPT ![i] = Raised(fault.cls, <<>>, fault)]
                /\ pc' = [pc EXCEPT ![i] = "done"]
                /\ UNCHANGED <<trace, inflight>>
           ELSE /\ trace' = [trace EXCEPT ![i] = Append(@, r)]
                /\ inflight' = [inflight EXCEPT ![i] = Append(@, r)]
                /\ UNCHANGED <<pc, result>>
    /\ UNCHANGED <<req, dirReply, service, kwargs, headers, commEndpoint,
                   primaryErr, fbIndex, got, jsonErrIsRequestException, world>>

\* Step 6: the reply of the JSON-RPC POST is handled
PrimaryCall(i) ==
    /\ pc[i] = "primary"
    /\ Awaiting(i, "primary")
    /\ \E reply \in world.primary :
          LET out == PrimaryOutcome(reply, jsonErrIsRequestException)
          IN  /\ SameReply(i, "primary", reply)
              /\ got' = [got EXCEPT ![i]["primary"] = reply]
              /\ primaryErr' = [primaryErr EXCEPT ![i] = out.e]
              /\ fbIndex' = [fbIndex EXCEPT ![i] =
                               IF out.next = "fallback" THEN 1 ELSE 0]
              /\ result' = [result EXCEPT ![i] = out.result]
              /\ pc' = [pc EXCEPT ![i] = out.next]
    /\ inflight' = [inflight EXCEPT ![i] = Tail(@)]
    /\ UNCHANGED <<req, dirReply, service, kwargs, headers, commEndpoint,
                   trace, jsonErrIsRequestException, world>>

\* one POST of the REST fallback loop is sent
PostFallback(i) ==
    /\ pc[i] = "fallback"
    /\ CanSend(i)
    /\ LET k == fbIndex[i]
           r == Request(FbStep(k), "POST",
                        RestEndpoints(commEndpoint[i], req[i].tool_name)[k],
                        headers[i], PlainJson(kwargs[i]))
       IN  /\ trace' = [trace EXCEPT ![i] = Append(@, r)]
           /\ inflight' = [inflight EXCEPT ![i] = Append(@, r)]
    /\ UNCHANGED <<pc, req, dirReply, service, kwargs, headers, commEndpoint,
                   primaryErr, fbIndex, got, result, jsonErrIsRequestException,
                   world>>

\* the reply of one fallback POST is handled
Fallback(i) ==
    /\ pc[i] = "fallback"
    /\ Awaiting(i, FbStep(fbIndex[i]))
    /\ \E reply \in world.fallback :
          LET k == fbIndex[i]
              out == FallbackOutcome(reply, k, primaryErr[i])
          IN  /\ SameReply(i, FbStep(k), reply)
              /\ got' = [got EXCEPT ![i][FbStep(k)] = reply]
              /\ fbIndex' = [fbIndex EXCEPT ![i] = IF out.next = "fallback" THEN k + 1 ELSE k]
              /\ result' = [result EXCEPT ![i] = out.result]
              /\ pc' = [pc EXCEPT ![i] = out.next]
    /\ inflight' = [inflight EXCEPT ![i] = Tail(@)]
    /\ UNCHANGED <<req, dirReply, service, kwargs, headers, commEndpoint,
                   primaryErr, trace, jsonErrIsRequestException, world>>

\* the results have been handed to the callers; the server waits for new calls
Return ==
    /\ \A i \in Runs : pc[i] = "done"
    /\ pc' = [i \in Runs |-> "idle"]
    /\ req' = [i \in Runs |-> NoRequestArgs]
    /\ dirReply' = [i \in Runs |-> DirNone]
    /\ service' = [i \in Runs |-> NoService]
    /\ kwargs' = [i \in Runs |-> NoKwargs]
    /\ headers' = [i \in Runs |-> NoHeaders]
    /\ commEndpoint' = [i \in Runs |-> ""]
    /\ primaryErr' = [i \in Runs |-> NoExc]
    /\ fbIndex' = [i \in Runs |-> 0]
    /\ trace' = [i \in Runs |-> <<>>]
    /\ inflight' = [i \in Runs |-> <<>>]
    /\ got' = [i \in Runs |-> NothingGot]
    /\ result' = [i \in Runs |-> NoResult]
    /\ UNCHANGED <<jsonErrIsRequestException, world>>

Next ==
    \/ \E i \in Runs : CallService(i)
    \/ \E i \in Runs : Lookup(i)
    \/ \E i \in Runs : PostDirect(i)
    \/ \E i \in Runs : DirectCall(i)
    \/ \E i \in Runs : GetAgentCard(i)
    \/ \E i \in Runs : Discover(i)
    \/ \E i \in Runs : GetEndpoint(i)
    \/ \E i \in Runs : Liveness(i)
    \/ \E i \in Runs : PostPrimary(i)
    \/ \E i \in Runs : PrimaryCall(i)
    \/ \E i \in Runs : PostFallback(i)
    \/ \E i \in Runs : Fallback(i)
    \/ Return

Spec == Init /\ [][Next]_vars

\* every call of requests carries timeout=API_TIMEOUT, so it returns or
\* raises, and the statements between two calls are finite: a run that can
\* take a step takes one
SpecFair == Init /\ [][Next]_vars /\ WF_vars(Next)

\* two runs of the same call against the same environment
SpecTwin == InitTwin /\ [][Next]_vars

\* two invocations in flight at the same time
SpecPair == InitPair /\ [][Next]_vars

TypeOK ==
    /\ \A i \in Runs :
          /\ pc[i] \in {"idle", "lookup", "direct", "discover", "liveness",
                        "primary", "fallback", "done"}
          /\ fbIndex[i] \in 0..3
          /\ result[i].state \in {"none", "returned", "raised"}
          /\ (pc[i] = "done") = (result[i].state # "none")
          /\ Len(inflight[i]) <= 1

-----------------------------------------------------------------------------
(* The failure kinds of the error taxonomy, read off the raise sites *)

\* Every failure leaves call_service as an exception; its kind is told by
\* the message the raise site builds.
KindOf(res) ==
    IF res.state # "raised" THEN "none"
    ELSE IF res.cls # "ValueError" THEN "Fault"
    ELSE IF res.prefix = <<"Service not found in active deck">> THEN "ServiceNotFound"
    ELSE IF res.prefix = <<"Invalid JSON in arguments">> THEN "ValidationError"
    ELSE IF res.prefix = <<"Failed to fetch agent card">> THEN "DiscoveryError"
    ELSE IF res.prefix = <<"Agent card does not specify a communication endpoint">>
         THEN "MalformedAgentCard"
    ELSE IF res.prefix = <<"A2A agent returned error">> THEN "RemoteError"
    ELSE IF res.prefix = <<"Failed to call A2A service">> THEN "TransportError"
    ELSE IF res.prefix = <<"Failed to call MCP service", "Failed to call MCP service",
                           "MCP service returned error">>
         THEN "RemoteError"
    ELSE IF res.prefix = <<"Failed to call MCP service", "Failed to call MCP service">>
         THEN "TransportError"
    ELSE "Fault"

-----------------------------------------------------------------------------
(* Vocabulary of the properties *)

Done(i) == pc[i] = "done"
Sent(i, step) == \E k \in DOMAIN trace[i] : trace[i][k].step = step
StepsOf(i) == [k \in DOMAIN trace[i] |-> trace[i][k].step]
IsPrefix(s, t) == Len(s) <= Len(t) /\ \A k \in DOMAIN s : s[k] = t[k]

AgentKind(i) == service[i].type = "a2a"
DirectKind(i) == service[i].type = "mcp"

Arrived(reply) == reply # NoReply
\* connect error, timeout or an HTTP error status
TransportFailed(reply) ==
    /\ Arrived(reply)
    /\ \/ reply.net # "ok"
       \/ reply.status < 200
       \/ reply.status >= 300
Is2xx(reply) == reply.net = "ok" /\ reply.status >= 200 /\ reply.status < 300
\* the transport-level exception a failed reply raises
TransportCause(reply, step) ==
    FirstError(<<SendError(reply, step), RaiseForStatus(reply, step)>>)

FallbackSteps == <<"fb1", "fb2", "fb3">>
AgentSteps == <<"discover", "liveness", "primary", "fb1", "fb2", "fb3">>
FallbackSuffixes(tool_name) == <<"/analyze", "/tool/process", "/" \o tool_name>>
NoFallbackSent(i) == \A k \in 1..3 : ~Sent(i, FallbackSteps[k])

\* the requests of an agent run are a prefix of discovery, liveness, primary,
\* first, second, third fallback, each fallback at its own URL
InOrder(i) ==
    /\ IsPrefix(StepsOf(i), AgentSteps)
    /\ \A k \in 1..3 :
          (3 + k) \in DOMAIN trace[i] =>
              /\ trace[i][3 + k].method = "POST"
              /\ trace[i][3 + k].url =
                    commEndpoint[i] \o FallbackSuffixes(req[i].tool_name)[k]

-----------------------------------------------------------------------------
(* C1: order and short-circuit of the REST fallback chain *)

\* a reply with a non-error HTTP status
NonErrorHttp(reply) == Arrived(reply) /\ reply.net = "ok" /\ reply.status < 400
\* a non-error reply whose body the loop can read: not declared as JSON, or
\* declared as JSON and parsing
Readable(reply) ==
    /\ NonErrorHttp(reply)
    /\ ~(IsJsonContentType(reply.ctype) /\ reply.body.kind = "invalid")

\* C1 as stated: for an agent-kind service whose primary call failed at the
\* transport level the fallback POSTs go to /analyze, /tool/process, /<tool>
\* in this order, candidate k+1 only after candidate k failed, and the first
\* candidate answering with a non-error HTTP response ends the invocation
\* successfully with that response, no later candidate being contacted.
C1_FirstNonErrorReplyWins ==
    \A i \in Runs :
        AgentKind(i) /\ TransportFailed(got[i]["primary"]) =>
            /\ InOrder(i)
            /\ \A k \in 1..2 :
                  Sent(i, FallbackSteps[k + 1]) => ~NonErrorHttp(got[i][FallbackSteps[k]])
            /\ \A k \in 1..3 :
                  NonErrorHttp(got[i][FallbackSteps[k]]) =>
                      /\ Done(i)
                      /\ result[i].state = "returned"
                      /\ result[i].payload.body = got[i][FallbackSteps[k]].body
                      /\ \A m \in (k + 1)..3 : ~Sent(i, FallbackSteps[m])

\* C1 amended: the same, a candidate counting as answered only when its
\* non-error reply is readable (a 2xx reply declared as JSON that does not
\* parse counts as a failed candidate); the chain is entered, and it ends
\* either with a success or after the third candidate.
C1_FallbackOrder ==
    \A i \in Runs :
        AgentKind(i) /\ TransportFailed(got[i]["primary"]) =>
            /\ InOrder(i)
            /\ pc[i] \in {"fallback", "done"}
            /\ Done(i) => Sent(i, "fb1") /\ (result[i].state = "returned" \/ Sent(i, "fb3"))
            /\ \A k \in 1..2 :
                  Sent(i, FallbackSteps[k + 1]) => ~Readable(got[i][FallbackSteps[k]])
            /\ \A k \in 1..3 :
                  Readable(got[i][FallbackSteps[k]]) =>
                      /\ Done(i)
                      /\ result[i].state = "returned"
                      /\ result[i].payload.body = got[i][FallbackSteps[k]].body
                      /\ \A m \in (k + 1)..3 : ~Sent(i, FallbackSteps[m])

\* the first candidate answered 200 with an unparsable JSON body, the second
\* one succeeded and the third was never contacted
C1_Witness ==
    \E i \in Runs :
        /\ AgentKind(i) /\ TransportFailed(got[i]["primary"])
        /\ got[i]["fb1"] = OkJson(BodyHtml)
        /\ Readable(got[i]["fb2"])
        /\ Done(i) /\ result[i].state = "returned"
        /\ ~Sent(i, "fb3")

-----------------------------------------------------------------------------
(* C2: a reported error is final *)

\* a 2xx reply that parses to an object carrying an error field
CarriesError(reply) ==
    Is2xx(reply) /\ reply.body.kind = "object" /\ "error" \in reply.body.keys

\* C2: for an agent-kind service, when the primary call returns a parsed
\* response with an error field, the invocation ends with RemoteError and no
\* fallback endpoint is contacted.
C2_RemoteErrorIsFinal ==
    \A i \in Runs :
        AgentKind(i) /\ CarriesError(got[i]["primary"]) =>
            /\ Done(i)
            /\ KindOf(result[i]) = "RemoteError"
            /\ NoFallbackSent(i)
            /\ StepsOf(i) = <<"discover", "liveness", "primary">>

C2_Witness ==
    \E i \in Runs :
        /\ AgentKind(i)
        /\ got[i]["primary"] = OkJson(BodyError)
        /\ Done(i)
        /\ KindOf(result[i]) = "RemoteError"

-----------------------------------------------------------------------------
(* C3: what starts the fallback chain *)

\* C3: whenever the primary call received a 2xx response, whatever its body,
\* no fallback endpoint is contacted.
C3_NoFallbackAfter2xx ==
    \A i \in Runs :
        Is2xx(got[i]["primary"]) => NoFallbackSent(i)

-----------------------------------------------------------------------------
(* C4: exhaustion of the fallback chain *)

\* C4: when the primary call failed at the transport level and all three
\* candidates failed as well, the invocation fails with TransportError and
\* carries the error of the primary call, not one of a fallback attempt.
C4_ExhaustionRaisesPrimaryError ==
    \A i \in Runs :
        ( /\ AgentKind(i)
          /\ TransportFailed(got[i]["primary"])
          /\ Done(i)
          /\ \A k \in 1..3 : Arrived(got[i][FallbackSteps[k]])
                             /\ ~Readable(got[i][FallbackSteps[k]]) )
        =>  /\ result[i].state = "raised"
            /\ KindOf(result[i]) = "TransportError"
            /\ result[i].cause = TransportCause(got[i]["primary"], "primary")
            /\ result[i].cause.step = "primary"

\* the primary call timed out and the three candidates failed in three
\* different ways
C4_Witness ==
    \E i \in Runs :
        /\ AgentKind(i)
        /\ got[i]["primary"] = Timeout
        /\ got[i]["fb1"] = ConnError
        /\ got[i]["fb2"] = Http404
        /\ got[i]["fb3"] = OkJson(BodyHtml)
        /\ Done(i)
        /\ result[i].cause.cls = "Timeout"

-----------------------------------------------------------------------------
(* C5: unknown service *)

\* the directory reply lists a service with this id
Known(d, service_id) == \E k \in DOMAIN d.services : d.services[k].id = service_id
LookedUp(i) == pc[i] \notin {"idle", "lookup"}

\* C5: for a serviceId the directory does not know, the invocation fails with
\* ServiceNotFound and no request is sent to any service endpoint.
C5_UnknownServiceNotFound ==
    \A i \in Runs :
        LookedUp(i) /\ ~Known(dirReply[i], req[i].service_id) =>
            /\ Done(i)
            /\ KindOf(result[i]) = "ServiceNotFound"
            /\ trace[i] = <<>>

\* an unknown id together with an unparsable arguments string
C5_Witness ==
    \E i \in Runs :
        /\ req[i].service_id = "s9"
        /\ req[i].arguments = "{oops"
        /\ dirReply[i] = DirFull
        /\ Done(i)
        /\ KindOf(result[i]) = "ServiceNotFound"

-----------------------------------------------------------------------------
(* C6: the direct protocol makes one call *)

\* C6: an invocation of a direct-kind service (its arguments parsed) makes
\* exactly one call, a POST to the descriptor's endpoint, whether it succeeds
\* or fails; a transport failure gives TransportError; no discovery, liveness
\* or fallback request is ever issued.
C6_DirectOneCall ==
    \A i \in Runs :
        DirectKind(i) =>
            /\ Len(trace[i]) <= 1
            /\ \A k \in DOMAIN trace[i] :
                  /\ trace[i][k].step = "direct"
                  /\ trace[i][k].method = "POST"
                  /\ trace[i][k].url = service[i].url
            /\ Done(i) /\ kwargs[i].valid => Len(trace[i]) = 1
            /\ Done(i) /\ TransportFailed(got[i]["direct"]) =>
                  KindOf(result[i]) = "TransportError"

C6_Witness ==
    \E i \in Runs :
        /\ DirectKind(i)
        /\ got[i]["direct"] = Http500
        /\ Done(i)
        /\ Len(trace[i]) = 1
        /\ KindOf(result[i]) = "TransportError"

-----------------------------------------------------------------------------
(* C7: failed discovery *)

\* transport error, non-2xx status or a body that does not parse
DiscoveryFailed(reply) ==
    Arrived(reply) /\ (TransportFailed(reply) \/ reply.body.kind = "invalid")

\* C7: for an agent-kind service whose discovery GET fails, the invocation
\* makes that one request only and ends with DiscoveryError.
C7_DiscoveryFailureIsFatal ==
    \A i \in Runs :
        AgentKind(i) /\ DiscoveryFailed(got[i]["discover"]) =>
            /\ Done(i)
            /\ KindOf(result[i]) = "DiscoveryError"
            /\ StepsOf(i) = <<"discover">>
            /\ trace[i][1].url = service[i].url

C7_Witness ==
    \E i \in Runs :
        /\ AgentKind(i)
        /\ got[i]["discover"] = OkText(BodyHtml)
        /\ Done(i)
        /\ KindOf(result[i]) = "DiscoveryError"
        /\ Len(trace[i]) = 1

-----------------------------------------------------------------------------
(* C8: agent card without communication endpoint *)

\* a card that parses to an object and gives no (or an empty) url
CardWithoutEndpoint(reply) ==
    Is2xx(reply) /\ reply.body.kind = "object" /\ reply.body.url = ""

\* C8: for an agent-kind service whose agent card has no communication
\* endpoint, the invocation ends with MalformedAgentCard and the discovery
\* GET is the only request: liveness, primary and fallbacks are skipped.
C8_CardWithoutEndpointIsFatal ==
    \A i \in Runs :
        AgentKind(i) /\ CardWithoutEndpoint(got[i]["discover"]) =>
            /\ Done(i)
            /\ KindOf(result[i]) = "MalformedAgentCard"
            /\ StepsOf(i) = <<"discover">>

C8_Witness ==
    \E i \in Runs :
        /\ AgentKind(i)
        /\ got[i]["discover"] = OkJson(BodyCardNoUrl)
        /\ Done(i)
        /\ KindOf(result[i]) = "MalformedAgentCard"
        /\ Len(trace[i]) = 1

-----------------------------------------------------------------------------
(* C9: kinds other than mcp and a2a *)

\* C9: a descriptor whose kind is neither mcp nor a2a makes the invocation
\* fail with UnsupportedProtocol, and no request is sent for it.
C9_UnknownKindRejected ==
    \A i \in Runs :
        ( /\ service[i] # NoService
          /\ service[i].type \notin {"mcp", "a2a"}
          /\ kwargs[i].valid )
        =>  /\ trace[i] = <<>>
            /\ Done(i) => KindOf(result[i]) = "UnsupportedProtocol"

-----------------------------------------------------------------------------
(* C10: the liveness check does not influence the invocation *)

\* the requests after the liveness GET
AfterLiveness(i) == SubSeq(trace[i], 3, Len(trace[i]))

\* C10: of two runs of the same call against the same directory and the same
\* remote replies, which differ at most in the reply to the liveness GET,
\* both issue the primary call, and their later requests and their results
\* are the same.
C10_LivenessDoesNotMatter ==
    \A i \in Runs : \A j \in Runs :
        ( /\ i < j
          /\ Done(i) /\ Done(j)
          /\ Arrived(got[i]["liveness"]) )
        =>  /\ Arrived(got[j]["liveness"])
            /\ Sent(i, "primary") /\ Sent(j, "primary")
            /\ AfterLiveness(i) = AfterLiveness(j)
            /\ result[i] = result[j]

\* the liveness GET failed in one run and confirmed the agent in the other;
\* both went through the primary call into the fallback chain
C10_Witness ==
    /\ Runs = {1, 2}
    /\ Done(1) /\ Done(2)
    /\ got[1]["liveness"] = ConnError
    /\ got[2]["liveness"] = OkJson(BodyTools)
    /\ Sent(1, "fb2") /\ Sent(2, "fb2")
    /\ result[1].state = "returned"
    /\ result[1] = result[2]

-----------------------------------------------------------------------------
(* C11: skill resolution *)

\* an agent card that parses to an object and names a communication endpoint
CardWithEndpoint(reply) ==
    Is2xx(reply) /\ reply.body.kind = "object" /\ reply.body.url # ""

\* C11: for every agent card with a communication endpoint, whatever its
\* skills hold, the invocation goes on to the primary call, a JSON-RPC POST
\* to the communication endpoint with the tool name as method.
C11_SkillsAreAdvisory ==
    \A i \in Runs :
        ( /\ AgentKind(i)
          /\ CardWithEndpoint(got[i]["discover"])
          /\ Arrived(got[i]["liveness"])
          /\ pc[i] # "primary" )
        =>  /\ Sent(i, "primary")
            /\ trace[i][3].url = got[i]["discover"].body.url
            /\ trace[i][3].body.shape = "jsonrpc"
            /\ trace[i][3].body.method = req[i].tool_name

-----------------------------------------------------------------------------
(* The liveness reply alone changes nothing (see C10) *)

\* two runs of the same call that differ at most in the liveness reply send
\* the same requests and end with the same result
LivenessNonInterference ==
    \A i \in Runs : \A j \in Runs :
        i < j /\ Done(i) /\ Done(j) =>
            /\ trace[i] = trace[j]
            /\ result[i] = result[j]

-----------------------------------------------------------------------------
(* C12: one terminal outcome of the closed taxonomy *)

Taxonomy ==
    {"ServiceNotFound", "UnsupportedProtocol", "DiscoveryError",
     "MalformedAgentCard", "RemoteError", "TransportError", "ValidationError"}

\* C12: every finished invocation has exactly one outcome, a success payload
\* or a failure whose kind is in the closed taxonomy; none ends with an
\* exception outside it.
C12_OutcomeInTaxonomy ==
    \A i \in Runs :
        Done(i) =>
            /\ result[i].state \in {"returned", "raised"}
            /\ result[i].state = "returned" => result[i].payload # NoPayload
            /\ result[i].state = "raised" => KindOf(result[i]) \in Taxonomy

-----------------------------------------------------------------------------
(* C13: local validation *)

\* C13: an invocation (of a service of the active deck) with an empty tool
\* name or an unparsable arguments string is rejected with the local
\* validation error before any request is sent.
C13_InvalidInputRejected ==
    \A i \in Runs :
        ( /\ LookedUp(i)
          /\ service[i] # NoService
          /\ (req[i].tool_name = "" \/ ~ParseArguments(req[i].arguments).valid) )
        =>  /\ Done(i)
            /\ KindOf(result[i]) = "ValidationError"
            /\ trace[i] = <<>>

-----------------------------------------------------------------------------
(* C14: the Authorization header *)

AgentCallSteps == {"primary", "fb1", "fb2", "fb3"}

\* C14: every primary or fallback request of an agent-kind service carries
\* "Authorization: Bearer <credential>" when the descriptor has a credential
\* and no Authorization header at all when it has none.
C14_NoEmptyAuthorization ==
    \A i \in Runs :
        AgentKind(i) =>
            \A k \in DOMAIN trace[i] :
                trace[i][k].step \in AgentCallSteps =>
                    IF service[i].apiKey # ""
                    THEN /\ "Authorization" \in DOMAIN trace[i][k].headers
                         /\ trace[i][k].headers["Authorization"] =
                               "Bearer " \o service[i].apiKey
                    ELSE "Authorization" \notin DOMAIN trace[i][k].headers

-----------------------------------------------------------------------------
(* C15: the arguments are forwarded unchanged *)

\* the arguments value the caller supplies: the JSON object its string
\* denotes, the empty object for an empty string
ArgumentsValue(arguments) == IF arguments = "" THEN "{}" ELSE arguments

\* C15: the arguments value of the caller is the params field of the JSON-RPC
\* envelope of the direct call and of the agent primary call, and it is the
\* whole body of every fallback POST.
C15_ArgumentsForwarded ==
    \A i \in Runs :
        \A k \in DOMAIN trace[i] :
            LET r == trace[i][k]
            IN  /\ r.step \in {"direct", "primary"} =>
                      /\ r.body.shape = "jsonrpc"
                      /\ r.body.method = req[i].tool_name
                      /\ r.body.params = ArgumentsValue(req[i].arguments)
                /\ r.step \in {"fb1", "fb2", "fb3"} =>
                      /\ r.body.shape = "plain"
                      /\ r.body.params = ArgumentsValue(req[i].arguments)

\* {"x": 1} went out in the primary envelope and as the body of two fallbacks
C15_Witness ==
    \E i \in Runs :
        /\ req[i].arguments = "{\"x\": 1}"
        /\ Sent(i, "fb2")
        /\ trace[i][3].body.params = "{\"x\": 1}"
        /\ trace[i][5].body = RequestBody("plain", "", "{\"x\": 1}")

-----------------------------------------------------------------------------
(* C16: invocations do not influence one another *)

\* the entry the directory content d has under the id
Entry(d, service_id) ==
    IF Known(d, service_id)
    THEN d.services[CHOOSE k \in DOMAIN d.services :
                        /\ d.services[k].id = service_id
                        /\ \A n \in 1..(k - 1) : d.services[n].id # service_id]
    ELSE NoService

\* C16: whatever other invocation is under way or has finished, the
\* descriptor an invocation works with is the entry of the directory content
\* of its own lookup, its first request goes to the URL of that entry, and two
\* invocations with the same request, the same directory content and the
\* same replies send the same requests and end with the same outcome.
C16_Stateless ==
    /\ \A i \in Runs :
          LookedUp(i) =>
              /\ service[i] = Entry(dirReply[i], req[i].service_id)
              /\ trace[i] # <<>> =>
                    trace[i][1].url = Entry(dirReply[i], req[i].service_id).url
    /\ \A i \in Runs : \A j \in Runs :
          ( /\ Done(i) /\ Done(j)
            /\ req[i] = req[j]
            /\ dirReply[i] = dirReply[j]
            /\ got[i] = got[j] )
          => trace[i] = trace[j] /\ result[i] = result[j]

\* two invocations of the id "s3" are in flight at once; the deck was
\* replaced between their lookups and each works with its own entry
C16_Witness ==
    /\ req[1].service_id = "s3" /\ req[2].service_id = "s3"
    /\ inflight[1] # <<>> /\ inflight[2] # <<>>
    /\ dirReply[1] = DirFull /\ dirReply[2] = DirSmall
    /\ service[1] = SvcOther /\ service[2] = SvcPlain
    /\ Sent(1, "primary") /\ Sent(2, "discover")

-----------------------------------------------------------------------------
(* C17: the steps of the agent sequence are taken one after the other *)

\* the reply of the k-th request of run i has come
Answered(i, k) == Arrived(got[i][trace[i][k].step])

\* C17: an agent run sends discovery, liveness check, primary call and the
\* fallbacks in this order, a request is sent only when every earlier one
\* has its reply, and the run never has more than one request unanswered.
C17_OneRequestAtATime ==
    \A i \in Runs :
        AgentKind(i) =>
            /\ IsPrefix(StepsOf(i), AgentSteps)
            /\ \A k \in DOMAIN trace[i] : k < Len(trace[i]) => Answered(i, k)
            /\ Len(inflight[i]) <= 1
            /\ inflight[i] = <<>> => \A k \in DOMAIN trace[i] : Answered(i, k)

\* the second fallback is the one request in flight, the four requests before
\* it are answered
C17_Witness ==
    \E i \in Runs :
        /\ AgentKind(i)
        /\ StepsOf(i) = <<"discover", "liveness", "primary", "fb1", "fb2">>
        /\ inflight[i] = <<trace[i][5]>>
        /\ \A k \in 1..4 : Answered(i, k)
        /\ ~Answered(i, 5)

-----------------------------------------------------------------------------
(* C18: the error field of a direct reply *)

\* C18: when the reply of a direct call is 2xx, parses and carries an error
\* field, the run fails with kind RemoteError and the message ends with the
\* content of that field; a connect error, a timeout or an HTTP error status
\* gives kind TransportError and the text of the transport exception.
C18_DirectRemoteError ==
    \A i \in Runs :
        DirectKind(i) /\ Arrived(got[i]["direct"]) =>
            LET reply == got[i]["direct"]
            IN  /\ Done(i)
                /\ CarriesError(reply) =>
                      /\ KindOf(result[i]) = "RemoteError"
                      /\ result[i].cause = Exc("error field", reply.body.id, "direct")
                /\ TransportFailed(reply) =>
                      /\ KindOf(result[i]) = "TransportError"
                      /\ result[i].cause = TransportCause(reply, "direct")

\* the reply {"error": ...} has ended a direct call with a RemoteError that
\* carries this error
C18_Witness ==
    \E i \in Runs :
        /\ DirectKind(i)
        /\ got[i]["direct"] = OkJson(BodyError2)
        /\ Done(i)
        /\ KindOf(result[i]) = "RemoteError"
        /\ result[i].cause.text = "error2"

-----------------------------------------------------------------------------
(* C19: a 2xx reply without an error field *)

\* the reply is 2xx and its body is JSON
Parsed(reply) == Is2xx(reply) /\ reply.body.kind # "invalid"

\* the steps that send the structured call envelope
EnvelopeSteps == {"direct", "primary"}

\* the run has returned the result field of the reply, or the whole body when
\* the reply has no such field
SucceededWith(i, reply) ==
    /\ Done(i)
    /\ result[i].state = "returned"
    /\ result[i].payload.body = reply.body
    /\ result[i].payload.field =
          IF "result" \in reply.body.keys THEN "result" ELSE "body"

\* C19: a 2xx reply of the direct call or of the agent primary call that
\* parses and has no error field makes the run succeed, with the result
\* field of the reply as payload, or the whole body when there is none.
C19_ParsedReplyIsSuccess ==
    \A i \in Runs : \A step \in EnvelopeSteps :
        Parsed(got[i][step]) /\ "error" \notin got[i][step].body.keys =>
            SucceededWith(i, got[i][step])

\* The same for the replies that are JSON objects.
ObjectReplyIsSuccess ==
    \A i \in Runs : \A step \in EnvelopeSteps :
        ( /\ Parsed(got[i][step])
          /\ got[i][step].body.kind = "object"
          /\ "error" \notin got[i][step].body.keys )
        => SucceededWith(i, got[i][step])

-----------------------------------------------------------------------------
(* C20: the extra headers of the registration *)

\* C20: the request of a direct call carries Content-Type and every extra
\* header of the registration and nothing else, each extra header with the
\* registered value (also when its name is Content-Type) and Content-Type
\* with application/json when the registration does not set it; no request
\* of an agent run carries an extra header of the registration: its headers
\* are among Content-Type and Authorization, Content-Type being
\* application/json.
C20_ExtraHeaders ==
    \A i \in Runs : \A k \in DOMAIN trace[i] :
        LET r == trace[i][k]
            extra == service[i].headers
        IN  /\ r.step = "direct" =>
                  /\ DOMAIN r.headers = {"Content-Type"} \cup DOMAIN extra
                  /\ \A h \in DOMAIN extra : r.headers[h] = extra[h]
                  /\ "Content-Type" \notin DOMAIN extra =>
                        r.headers["Content-Type"] = "application/json"
            /\ r.step # "direct" =>
                  /\ DOMAIN r.headers \subseteq {"Content-Type", "Authorization"}
                  /\ "Content-Type" \in DOMAIN r.headers =>
                        r.headers["Content-Type"] = "application/json"

\* a direct call went out with the registered Content-Type in the place of
\* application/json, and with the registered X-Api-Key
C20_Witness ==
    \E i \in Runs :
        /\ Sent(i, "direct")
        /\ service[i].headers["Content-Type"] = "text/plain"
        /\ trace[i][1].headers =
              [h \in {"X-Api-Key", "Content-Type"} |->
                  IF h = "X-Api-Key" THEN "k1" ELSE "text/plain"]

-----------------------------------------------------------------------------
(* C21: an agent run ends after at most six requests *)

\* the requests of run i that belong to the step
RequestsOf(i, step) == {k \in DOMAIN trace[i] : trace[i][k].step = step}

\* two requests of the run go to the same URL
SameUrlTwice(i) ==
    \E k \in DOMAIN trace[i] : \E n \in DOMAIN trace[i] :
        k # n /\ trace[i][k].url = trace[i][n].url

\* at most six requests: one per step of the agent sequence
SixRequests(i) ==
    /\ Len(trace[i]) <= 6
    /\ \A k \in DOMAIN trace[i] : trace[i][k].step \in
          {"discover", "liveness", "primary", "fb1", "fb2", "fb3"}
    /\ \A k \in DOMAIN trace[i] : \A n \in DOMAIN trace[i] :
          trace[i][k].step = trace[i][n].step => k = n
    /\ \A k \in DOMAIN trace[i] :
          trace[i][k].method =
              IF trace[i][k].step \in {"discover", "liveness"} THEN "GET" ELSE "POST"

\* The statement as it stands, without its termination part: at most six
\* requests, one per step, and no two of them to the same URL.
C21_NoEndpointTwice ==
    \A i \in Runs :
        AgentKind(i) => SixRequests(i) /\ ~SameUrlTwice(i)

\* C21: an agent run whose network calls all return or time out ends, and
\* it sends at most six requests, at most one for each of discovery GET,
\* liveness GET, primary POST, first, second and third fallback POST; two
\* of these may go to the same URL: the liveness GET and the primary POST
\* always do, and the third fallback repeats the POST of the first when the
\* tool is named "analyze".
C21_EndsWithinSixRequests ==
    /\ [](\A i \in Runs :
            AgentKind(i) =>
                /\ SixRequests(i)
                /\ Sent(i, "primary") => trace[i][2].url = trace[i][3].url
                /\ Sent(i, "fb3") /\ req[i].tool_name = "analyze" =>
                      /\ trace[i][6].url = trace[i][4].url
                      /\ trace[i][6].headers = trace[i][4].headers
                      /\ trace[i][6].body = trace[i][4].body)
    /\ (pc[1] = "discover") ~> (pc[1] = "done")

\* a run of the tool "analyze" has ended after six requests, the last of
\* them a repetition of the fourth
C21_Witness ==
    \E i \in Runs :
        /\ AgentKind(i)
        /\ req[i].tool_name = "analyze"
        /\ Done(i)
        /\ Len(trace[i]) = 6
        /\ trace[i][6].url = trace[i][4].url
        /\ KindOf(result[i]) = "TransportError"

-----------------------------------------------------------------------------
(* C22: a failed directory lookup *)

\* the backend was unreachable, reported an error, or has no active deck
DirectoryFailed(d) == d.kind \in {"unreachable", "api_error", "no_deck"}

\* C22: when the fetch of the active deck fails or yields no deck, the run
\* ends, whatever the service id, with the failure of an unknown id:
\* ServiceNotFound with the same message and nothing of the directory
\* failure in it, and it sends no request to a service endpoint.
C22_DirectoryFailureIsNotFound ==
    \A i \in Runs :
        LookedUp(i) /\ DirectoryFailed(dirReply[i]) =>
            /\ Done(i)
            /\ service[i] = NoService
            /\ KindOf(result[i]) = "ServiceNotFound"
            /\ result[i] =
                  Raised("ValueError", <<"Service not found in active deck">>, NoExc)
            /\ trace[i] = <<>>

\* the backend was unreachable when the registered id "s1" was called, and
\* the run ended with ServiceNotFound
C22_Witness ==
    \E i \in Runs :
        /\ req[i].service_id = "s1"
        /\ dirReply[i] = DirUnreachable
        /\ Done(i)
        /\ KindOf(result[i]) = "ServiceNotFound"
        /\ trace[i] = <<>>

====
